---- MODULE Spec2Model ----
(***************************************************************************)
(* One run of the synalinks command line program                           *)
(* (src/synalinks_memory_cli/main.py): the command group with its default  *)
(* "ask" routing, the five command handlers with their try/except/finally  *)
(* around the remote call, and the table cell formatter.                   *)
(*                                                                         *)
(* Tokens, names and cell contents are TLA+ strings, so joining, slicing   *)
(* and length are computed on the characters.  An optional value (Python   *)
(* None or a value) is a sequence of length 0 or 1.                        *)
(***************************************************************************)
EXTENDS Integers, Sequences, FiniteSets, TLC

VARIABLES
    args,      \* tokens left after the group's own options (ctx.protected_args + ctx.args)
    obj,       \* ctx.obj: api_key and base_url as the group callback stored them
    pc,        \* position of the run
    cmd,       \* name of the command the group resolved, "" before that
    cmdargs,   \* tokens handed to the resolved command
    params,    \* parameters of the resolved command after click parsed cmdargs
    made,      \* keyword arguments of every SynalinksMemory(...) construction, in order
    client,    \* "none", "open" or "closed"
    closes,    \* number of client.close() calls
    calls,     \* remote operations invoked on the client, in order
    result,    \* what the remote operation returned, <<>> if it did not return
    exiting,   \* <<code>> while a SystemExit(code) is propagating, <<>> otherwise
    out,       \* what was printed on console (stdout), in order
    err,       \* what was printed on err_console (stderr), in order
    status,    \* exit status of the process, -1 while it runs
    events,    \* the steps of the run, in order
    value,     \* a cell value handed to _format_cell on its own
    text       \* <<_format_cell(value)>> once computed, <<>> before

vars == <<args, obj, pc, cmd, cmdargs, params, made, client, closes, calls,
          result, exiting, out, err, status, events, value, text>>

\* ---------------------------------------------------------------- bounds

\* longest token sequence after the first token
MaxArgs == 5
\* most rows in a result set
MaxRows == 2
\* longest cell string handed to _format_cell on its own
MaxStrLen == 83

\* ------------------------------------------------------- optional values

None == <<>>
Some(x) == <<x>>
\* Python truthiness of an optional string: None and "" are falsy
Truthy(o) == o # None /\ o[1] # ""

RECURSIVE SeqsUpTo(_, _)
SeqsUpTo(S, n) ==
    IF n = 0 THEN {<<>>}
    ELSE LET shorter == SeqsUpTo(S, n - 1)
         IN  shorter \cup {Append(s, x) : s \in {t \in shorter : Len(t) = n - 1}, x \in S}

\* ------------------------------------------------------------ characters

Digits == {"0", "1", "2", "3", "4", "5", "6", "7", "8", "9"}

DigitVal(c) ==
    CASE c = "0" -> 0 [] c = "1" -> 1 [] c = "2" -> 2 [] c = "3" -> 3 [] c = "4" -> 4
      [] c = "5" -> 5 [] c = "6" -> 6 [] c = "7" -> 7 [] c = "8" -> 8 [] c = "9" -> 9

IsDigits(t) == Len(t) > 0 /\ \A i \in 1..Len(t) : SubSeq(t, i, i) \in Digits

\* what Python's int(t) accepts among the tokens drawn here: digits, optionally signed
IsInt(t) ==
    \/ IsDigits(t)
    \/ Len(t) > 1 /\ SubSeq(t, 1, 1) \in {"-", "+"} /\ IsDigits(SubSeq(t, 2, Len(t)))

RECURSIVE ToNat(_)
ToNat(t) ==
    IF Len(t) = 0 THEN 0
    ELSE ToNat(SubSeq(t, 1, Len(t) - 1)) * 10 + DigitVal(SubSeq(t, Len(t), Len(t)))

ToInt(t) ==
    IF SubSeq(t, 1, 1) = "-" THEN 0 - ToNat(SubSeq(t, 2, Len(t)))
    ELSE IF SubSeq(t, 1, 1) = "+" THEN ToNat(SubSeq(t, 2, Len(t)))
    ELSE ToNat(t)

\* ----------------------------------------------- the commands' parameters

\* the commands registered on the group, the hidden one included
Commands == {"list", "execute", "search", "add", "_ask"}

\* --limit and --offset defaults
DefaultLimit == 20
DefaultOffset == 0

\* click.Choice of --format
Formats == {"json", "csv", "parquet"}

\* files present on disk, for click.Path(exists=True)
ExistingFiles == {"data.csv"}

\* click's test for an option token: a prefix character and more than one character
IsOptionToken(t) == Len(t) > 1 /\ SubSeq(t, 1, 1) = "-"

\* the parameter an option token of command c sets, "" when c declares no such option
OptDest(c, t) ==
    IF t = "--help" THEN "help"
    ELSE IF c = "execute" THEN
        CASE t \in {"--limit", "-n"} -> "limit"
          [] t = "--offset" -> "offset"
          [] t \in {"--format", "-f"} -> "fmt"
          [] t \in {"--output", "-o"} -> "output"
          [] OTHER -> ""
    ELSE IF c = "search" THEN
        CASE t \in {"--limit", "-n"} -> "limit"
          [] t = "--offset" -> "offset"
          [] OTHER -> ""
    ELSE IF c = "add" THEN
        CASE t = "--name" -> "name"
          [] t = "--description" -> "description"
          [] t = "--overwrite" -> "overwrite"
          [] OTHER -> ""
    ELSE ""

\* options that take no value
IsFlag(d) == d \in {"help", "overwrite"}

\* number of positional arguments of command c, -1 for nargs=-1
NArgs(c) ==
    CASE c = "list" -> 0
      [] c = "execute" -> 1
      [] c = "search" -> 2
      [] c = "add" -> 1
      [] c = "_ask" -> -1

NoOpts ==
    [limit |-> None, offset |-> None, fmt |-> None, output |-> None,
     name |-> None, description |-> None, overwrite |-> FALSE, help |-> FALSE]

\* click's option parser over the tokens of command c (interspersed arguments
\* allowed): "--" ends option processing and is dropped, an option token sets its
\* parameter (taking the next token as its value unless it is a flag), any other
\* token is positional.  bad: no such option, or an option without its value.
RECURSIVE ProcessArgs(_, _, _)
ProcessArgs(c, rargs, st) ==
    IF rargs = <<>> \/ st.bad THEN st
    ELSE LET arg == Head(rargs)
             rest == Tail(rargs)
         IN  IF arg = "--" THEN [st EXCEPT !.largs = @ \o rest]
             ELSE IF IsOptionToken(arg) THEN
                 LET d == OptDest(c, arg)
                 IN  IF d = "" THEN [st EXCEPT !.bad = TRUE]
                     ELSE IF IsFlag(d) THEN
                         ProcessArgs(c, rest, [st EXCEPT !.opts[d] = TRUE])
                     ELSE IF rest = <<>> THEN [st EXCEPT !.bad = TRUE]
                     ELSE ProcessArgs(c, Tail(rest),
                                      [st EXCEPT !.opts[d] = Some(Head(rest))])
             ELSE ProcessArgs(c, rest, [st EXCEPT !.largs = Append(@, arg)])

NoParams ==
    [predicate |-> "", keywords |-> "", file |-> "", question |-> <<>>,
     limit |-> DefaultLimit, offset |-> DefaultOffset, fmt |-> None, output |-> None,
     name |-> None, description |-> None, overwrite |-> FALSE]

\* an option value click's type conversion rejects
BadValue(o) ==
    \/ o.limit # None /\ ~IsInt(o.limit[1])
    \/ o.offset # None /\ ~IsInt(o.offset[1])
    \/ o.fmt # None /\ o.fmt[1] \notin Formats

\* the parameters of command c from the parsed options o and positionals l
Bind(c, o, l) ==
    [predicate   |-> IF c \in {"execute", "search"} THEN l[1] ELSE "",
     keywords    |-> IF c = "search" THEN l[2] ELSE "",
     file        |-> IF c = "add" THEN l[1] ELSE "",
     question    |-> IF c = "_ask" THEN l ELSE <<>>,
     limit       |-> IF o.limit = None THEN DefaultLimit ELSE ToInt(o.limit[1]),
     offset      |-> IF o.offset = None THEN DefaultOffset ELSE ToInt(o.offset[1]),
     fmt         |-> o.fmt,
     output      |-> o.output,
     name        |-> o.name,
     description |-> o.description,
     overwrite   |-> o.overwrite]

\* Command.parse_args of command c on tokens rargs: "usage" is a click UsageError
\* (exit status 2), "help" the eager --help (printed, exit status 0), "ok" the call
\* of the command's callback with params
ParseArgs(c, rargs) ==
    LET st == ProcessArgs(c, rargs, [largs |-> <<>>, opts |-> NoOpts, bad |-> FALSE])
        n == Len(st.largs)
        missing == IF NArgs(c) < 0 THEN n = 0 ELSE n < NArgs(c)
        extra == NArgs(c) >= 0 /\ n > NArgs(c)
        nofile == c = "add" /\ n >= 1 /\ st.largs[1] \notin ExistingFiles
    IN  IF st.bad THEN [kind |-> "usage", params |-> NoParams]
        ELSE IF st.opts.help THEN [kind |-> "help", params |-> NoParams]
        ELSE IF BadValue(st.opts) \/ missing \/ nofile \/ extra
             THEN [kind |-> "usage", params |-> NoParams]
        ELSE [kind |-> "ok", params |-> Bind(c, st.opts, st.largs)]

\* ------------------------------------------------------------ the router

\* resolve_command without the "not in self.commands" test
resolve_command_any(a) ==
    LET cmd_name == a[1]
    IN  IF cmd_name # ""
        THEN [found |-> TRUE, name |-> "_ask", args |-> a]
        ELSE [found |-> FALSE, name |-> "", args |-> Tail(a)]

\* _DefaultAskGroup.resolve_command on a non-empty token list: a non-empty first
\* token that is no registered command routes every token to _ask; otherwise
\* click.Group.resolve_command looks the first token up and hands on the rest
resolve_command(a) ==
    LET cmd_name == a[1]
    IN  IF cmd_name # "" /\ cmd_name \notin Commands
        THEN [found |-> TRUE, name |-> "_ask", args |-> a]
        ELSE IF cmd_name \in Commands
        THEN [found |-> TRUE, name |-> cmd_name, args |-> Tail(a)]
        ELSE [found |-> FALSE, name |-> "", args |-> Tail(a)]


\* ------------------------------------------------------- cell formatting

\* a cell longer than CellMax characters is cut to CellKeep characters and Ellipsis
CellMax == 80
CellKeep == 77
Ellipsis == "..."

\* Python values a row can hold: None, a str, an int
NoneValue == [t |-> "none", s |-> "", n |-> 0]
StrValue(x) == [t |-> "str", s |-> x, n |-> 0]
IntValue(k) == [t |-> "int", s |-> "", n |-> k]

DigitChar(d) ==
    CASE d = 0 -> "0" [] d = 1 -> "1" [] d = 2 -> "2" [] d = 3 -> "3" [] d = 4 -> "4"
      [] d = 5 -> "5" [] d = 6 -> "6" [] d = 7 -> "7" [] d = 8 -> "8" [] d = 9 -> "9"

RECURSIVE NatToStr(_)
NatToStr(k) == IF k < 10 THEN DigitChar(k) ELSE NatToStr(k \div 10) \o DigitChar(k % 10)

\* str(value) of a value that is not None
str(v) ==
    IF v.t = "str" THEN v.s
    ELSE IF v.n < 0 THEN "-" \o NatToStr(0 - v.n) ELSE NatToStr(v.n)

\* rich Text(plain, style)
Text(plain, style) == [plain |-> plain, style |-> style]

\* _format_cell keeping CellMax characters before the ellipsis
_format_cell_keep_max(v) ==
    IF v.t = "none" THEN Text("null", "dim italic")
    ELSE LET s == str(v)
         IN  Text(IF Len(s) > CellMax THEN SubSeq(s, 1, CellMax) \o Ellipsis ELSE s, "")

_format_cell(v) ==
    IF v.t = "none" THEN Text("null", "dim italic")
    ELSE LET s == str(v)
         IN  Text(IF Len(s) > CellMax THEN SubSeq(s, 1, CellKeep) \o Ellipsis ELSE s, "")

\* Get with row.get(key, "")
Get_empty_default(row, key) == IF key \in DOMAIN row THEN row[key] ELSE StrValue("")

\* row.get(key): the value under key, None when the row has no such key
Get(row, key) == IF key \in DOMAIN row THEN row[key] ELSE NoneValue

\* one table row: a cell per column of the result
RowCells(columns, row) ==
    [i \in 1..Len(columns) |-> _format_cell(Get(row, columns[i].name))]

\* ---------------------------------------------------- the remote client

\* message of a SynalinksError
ErrorMessage == "boom"

\* keyword arguments _get_client passes to SynalinksMemory: only the truthy ones
ClientKwargs(o) ==
    [api_key  |-> IF Truthy(o.api_key) THEN o.api_key ELSE None,
     base_url |-> IF Truthy(o.base_url) THEN o.base_url ELSE None]

\* ExecuteOutput with the "." of the f-string lost
ExecuteOutput_no_dot(p) ==
    IF p.output = None THEN p.predicate \o p.fmt[1] ELSE p.output[1]

\* output path of execute in file mode: the given one, else <predicate>.<format>
ExecuteOutput(p) ==
    IF p.output = None THEN p.predicate \o "." \o p.fmt[1] ELSE p.output[1]

\* the remote operation each handler invokes, with its arguments
list_call(p) == [op |-> "list"]

execute_call(p) ==
    IF p.fmt # None
    THEN [op |-> "execute", predicate |-> p.predicate, format |-> p.fmt,
          limit |-> p.limit, offset |-> p.offset, output |-> Some(ExecuteOutput(p))]
    ELSE [op |-> "execute", predicate |-> p.predicate, format |-> None,
          limit |-> p.limit, offset |-> p.offset, output |-> None]

search_call(p) ==
    [op |-> "search", predicate |-> p.predicate, keywords |-> p.keywords,
     limit |-> p.limit, offset |-> p.offset]

upload_call(p) ==
    [op |-> "upload", file |-> p.file, name |-> p.name,
     description |-> p.description, overwrite |-> p.overwrite]

\* " ".join(question)
RECURSIVE Join(_)
Join(q) ==
    IF q = <<>> THEN ""
    ELSE IF Len(q) = 1 THEN q[1]
    ELSE q[1] \o " " \o Join(Tail(q))

ask_call(p) == [op |-> "ask", question |-> Join(p.question)]

CallOf(c, p) ==
    CASE c = "list" -> list_call(p)
      [] c = "execute" -> execute_call(p)
      [] c = "search" -> search_call(p)
      [] c = "add" -> upload_call(p)
      [] c = "_ask" -> ask_call(p)

\* ---- what the remote service can answer

Pred(name, description) == [name |-> name, description |-> description]

ListResults ==
    { [tables |-> <<>>, concepts |-> <<>>, rules |-> <<>>],
      [tables |-> <<Pred("Sales", "sales rows")>>, concepts |-> <<>>, rules |-> <<>>],
      [tables |-> <<Pred("Sales", "sales rows")>>,
       concepts |-> <<Pred("Customer", "")>>,
       rules |-> <<Pred("TopCustomer", "best ones")>>] }

Column(name) == [name |-> name]

ColumnLists == { <<Column("id"), Column("name")>>, <<Column("name")>> }

\* rows as mappings from column name to value: complete, with a None, with a
\* key missing, with a key no column names
Rows ==
    { [k \in {"id", "name"} |-> IF k = "id" THEN IntValue(12) ELSE StrValue("null")],
      [k \in {"id", "name"} |-> IF k = "id" THEN StrValue("") ELSE NoneValue],
      [k \in {"id"} |-> IntValue(-5)],
      [k \in {"name", "extra"} |-> StrValue("x")] }

RowResults(p) ==
    { [columns |-> cs, rows |-> rs, row_count |-> Len(rs),
       total_rows |-> Len(rs) + p.offset, offset |-> p.offset] :
          cs \in ColumnLists, rs \in SeqsUpTo(Rows, MaxRows) }

\* number of bytes of an exported file
FileResults == { [nbytes |-> 0], [nbytes |-> 1536] }

UploadResults ==
    { [predicate |-> "Data", columns |-> <<>>, row_count |-> 0],
      [predicate |-> "Data", columns |-> <<Column("id"), Column("name")>>,
       row_count |-> 3] }

Answers == { "", "Sales are **up**." }

Returns(c, p) ==
    CASE c = "list" -> ListResults
      [] c = "execute" -> IF p.fmt # None THEN FileResults ELSE RowResults(p)
      [] c = "search" -> RowResults(p)
      [] c = "add" -> UploadResults
      [] c = "_ask" -> Answers

\* ------------------------------------------------------------- rendering

Line(parts) == [kind |-> "text", parts |-> parts]

TableOf(title, columns, rows) ==
    [kind |-> "table", title |-> title, columns |-> columns, rows |-> rows]

PredRows(kind, preds) ==
    [i \in 1..Len(preds) |-> <<kind, preds[i].name, preds[i].description>>]

list_render(p, r) ==
    LET rows == PredRows("table", r.tables) \o PredRows("concept", r.concepts)
                    \o PredRows("rule", r.rules)
    IN  IF Len(rows) = 0 THEN Line(<<"No predicates found.">>)
        ELSE TableOf(<<"Predicates">>, <<"Type", "Name", "Description">>, rows)

\* f"{nbytes / 1024:.1f}": tenths of a KB, ties to even
KB(nbytes) ==
    LET q == (nbytes * 10) \div 1024
        r == (nbytes * 10) % 1024
        t == IF 2 * r > 1024 \/ (2 * r = 1024 /\ q % 2 = 1) THEN q + 1 ELSE q
    IN  NatToStr(t \div 10) \o "." \o NatToStr(t % 10)

ColumnNames(columns) == [i \in 1..Len(columns) |-> columns[i].name]

ResultTable(title, r) ==
    TableOf(title, ColumnNames(r.columns),
            [i \in 1..Len(r.rows) |-> RowCells(r.columns, r.rows[i])])

execute_render(p, r) ==
    IF p.fmt # None
    THEN Line(<<"Saved", " ", ExecuteOutput(p), " (", KB(r.nbytes), " KB)">>)
    ELSE IF r.rows = <<>> THEN Line(<<"No rows in ", p.predicate, ".">>)
    ELSE ResultTable(<<p.predicate>>, r)

\* search_render with execute's message for an empty result
search_render_no_keywords(p, r) ==
    IF r.rows = <<>>
    THEN Line(<<"No rows in ", p.predicate, ".">>)
    ELSE ResultTable(<<"Search \"", p.keywords, "\" in ", p.predicate>>, r)

search_render(p, r) ==
    IF r.rows = <<>>
    THEN Line(<<"No results for \"", p.keywords, "\" in ", p.predicate, ".">>)
    ELSE ResultTable(<<"Search \"", p.keywords, "\" in ", p.predicate>>, r)

RECURSIVE JoinComma(_)
JoinComma(q) ==
    IF q = <<>> THEN ""
    ELSE IF Len(q) = 1 THEN q[1]
    ELSE q[1] \o ", " \o JoinComma(Tail(q))

upload_render(p, r) ==
    LET col_names == IF r.columns # <<>> THEN JoinComma(ColumnNames(r.columns)) ELSE "-"
    IN  TableOf(<<"Upload Result">>, <<"Predicate", "Columns", "Rows">>,
                << <<r.predicate, col_names, NatToStr(r.row_count)>> >>)

ask_render(p, r) == [kind |-> "markdown", text |-> r]

RenderOf(c, p, r) ==
    CASE c = "list" -> list_render(p, r)
      [] c = "execute" -> execute_render(p, r)
      [] c = "search" -> search_render(p, r)
      [] c = "add" -> upload_render(p, r)
      [] c = "_ask" -> ask_render(p, r)

ErrorLine(message) == Line(<<"Error:", " ", message>>)

\* ---------------------------------------------------------------- inputs

\* first tokens: the four public commands, the hidden one, a word, the empty token
FirstTokens == {"list", "execute", "search", "add", "_ask", "How", ""}

\* tokens that can follow each first token
RestTokens(f) ==
    CASE f = "list" -> {"the", "--help", "--bogus"}
      [] f = "execute" -> {"Sales", "-f", "csv", "-o", "out.csv", ""}
      [] f = "search" -> {"Sales", "acme", "-n", "7"}
      [] f = "add" -> {"data.csv", "missing.csv", "--overwrite", "--name"}
      [] OTHER -> {"are", "list", "--", "--bogus", "--help"}

\* args is an invocation: no token, or a first token and up to MaxArgs more
IsInvocation(a) ==
    \/ a = <<>>
    \/ \E f \in FirstTokens, n \in 0..MaxArgs :
          \E r \in [1..n -> RestTokens(f)] : a = <<f>> \o r

\* what --api-key / SYNALINKS_API_KEY and --base-url can leave in ctx.obj
Objs ==
    { [api_key |-> Some(""), base_url |-> None],
      [api_key |-> Some("key"), base_url |-> Some("https://host")] }

NoObj == [api_key |-> None, base_url |-> None]

RECURSIVE Rep(_, _)
Rep(c, n) == IF n = 0 THEN "" ELSE c \o Rep(c, n - 1)

\* a string of n characters "a", the k-th replaced by "b" when k > 0
Marked(n, k) == IF k = 0 THEN Rep("a", n) ELSE Rep("a", k - 1) \o "b" \o Rep("a", n - k)

CellValues ==
    {NoneValue, StrValue("null"), IntValue(-5), IntValue(0), IntValue(12)}
        \cup UNION { { StrValue(Marked(n, k)) :
                         k \in {0, 1, CellKeep, CellKeep + 1, CellMax, CellMax + 1} \cap 0..n } :
                     n \in 0..MaxStrLen }

\* ------------------------------------------------------------------ steps

Blank ==
    /\ obj = NoObj
    /\ cmd = ""
    /\ cmdargs = <<>>
    /\ params = NoParams
    /\ made = <<>>
    /\ client = "none"
    /\ closes = 0
    /\ calls = <<>>
    /\ result = None
    /\ exiting = None
    /\ out = <<>>
    /\ err = <<>>
    /\ status = -1
    /\ events = <<>>
    /\ text = <<>>

Init ==
    /\ IsInvocation(args)
    /\ pc = "start"
    /\ value = NoneValue
    /\ Blank

\* SystemExit(code) raised at this point, outside any try block
Raise(code) ==
    /\ exiting' = Some(code)
    /\ pc' = "exit"

\* click.Group on no token at all prints the help text: by click version on
\* stdout with exit status 0, or as a usage error on stderr with exit status 2
NoCommand ==
    /\ pc = "start"
    /\ args = <<>>
    /\ \/ /\ Raise(0)
          /\ out' = Append(out, Line(<<"Usage">>))
          /\ UNCHANGED err
       \/ /\ Raise(2)
          /\ err' = Append(err, Line(<<"Usage">>))
          /\ UNCHANGED out
    /\ events' = Append(events, "parse")
    /\ UNCHANGED <<args, obj, cmd, cmdargs, params, made, client, closes, calls,
                   result, status, value, text>>

\* Group.invoke: resolve the command, then run the group callback cli, which stores
\* both options in ctx.obj; an unknown command is a usage error
Resolve ==
    /\ pc = "start"
    /\ args # <<>>
    /\ events' = Append(events, "parse")
    /\ LET r == resolve_command(args)
       IN  \/ /\ r.found
              /\ cmd' = r.name
              /\ cmdargs' = r.args
              /\ obj' \in Objs
              /\ pc' = "parse"
              /\ UNCHANGED <<exiting, err>>
           \/ /\ ~r.found
              /\ Raise(2)
              /\ err' = Append(err, Line(<<"Usage", "No such command">>))
              /\ UNCHANGED <<cmd, cmdargs, obj>>
    /\ UNCHANGED <<args, params, made, client, closes, calls, result, out, status,
                   value, text>>

\* the resolved command parses its tokens
Parse ==
    /\ pc = "parse"
    /\ LET r == ParseArgs(cmd, cmdargs)
       IN  \/ /\ r.kind = "ok"
              /\ params' = r.params
              /\ pc' = "handler"
              /\ UNCHANGED <<exiting, out, err>>
           \/ /\ r.kind = "help"
              /\ Raise(0)
              /\ out' = Append(out, Line(<<"Usage">>))
              /\ UNCHANGED <<params, err>>
           \/ /\ r.kind = "usage"
              /\ Raise(2)
              /\ err' = Append(err, Line(<<"Usage", "Error:">>))
              /\ UNCHANGED <<params, out>>
    /\ UNCHANGED <<args, obj, cmd, cmdargs, made, client, closes, calls, result,
                   status, events, value, text>>

\* OutputNeedsFormat with the "not" of "not fmt" lost
OutputNeedsFormat_inverted(c, p) == c = "execute" /\ Truthy(p.output) /\ Truthy(p.fmt)

\* execute's own check: --output without --format
OutputNeedsFormat(c, p) == c = "execute" /\ Truthy(p.output) /\ ~Truthy(p.fmt)

\* the handler's statements before _get_client
Enter ==
    /\ pc = "handler"
    /\ \/ /\ OutputNeedsFormat(cmd, params)
          /\ err' = Append(err, ErrorLine("--output requires --format (-f)."))
          /\ Raise(1)
       \/ /\ ~OutputNeedsFormat(cmd, params)
          /\ pc' = "client"
          /\ UNCHANGED <<err, exiting>>
    /\ UNCHANGED <<args, obj, cmd, cmdargs, params, made, client, closes, calls,
                   result, out, status, events, value, text>>

\* _get_client: the constructor returns a client or raises SynalinksError
get_client ==
    /\ pc = "client"
    /\ events' = Append(events, "construct")
    /\ \/ /\ made' = Append(made, ClientKwargs(obj))
          /\ client' = "open"
          /\ pc' = "call"
          /\ UNCHANGED <<err, exiting>>
       \/ /\ err' = Append(err, ErrorLine(ErrorMessage))
          /\ Raise(1)
          /\ UNCHANGED <<made, client>>
    /\ UNCHANGED <<args, obj, cmd, cmdargs, params, closes, calls, result, out,
                   status, value, text>>

\* Try with one retry of a remote operation that raised
Try_retry ==
    /\ pc = "call"
    /\ calls' = Append(calls, CallOf(cmd, params))
    /\ events' = Append(events, "call")
    /\ \/ /\ \E r \in Returns(cmd, params) : result' = Some(r)
          /\ pc' = "finally"
       \/ /\ pc' = IF calls = <<>> THEN "call" ELSE "except"
          /\ UNCHANGED result
    /\ UNCHANGED <<args, obj, cmd, cmdargs, params, made, client, closes, exiting,
                   out, err, status, value, text>>

\* the try block: the remote operation returns or raises SynalinksError
Try ==
    /\ pc = "call"
    /\ calls' = Append(calls, CallOf(cmd, params))
    /\ events' = Append(events, "call")
    /\ \/ /\ \E r \in Returns(cmd, params) : result' = Some(r)
          /\ pc' = "finally"
       \/ /\ pc' = "except"
          /\ UNCHANGED result
    /\ UNCHANGED <<args, obj, cmd, cmdargs, params, made, client, closes, exiting,
                   out, err, status, value, text>>

\* Except with sys.exit() in place of sys.exit(1)
Except_exit0 ==
    /\ pc = "except"
    /\ err' = Append(err, ErrorLine(ErrorMessage))
    /\ exiting' = Some(0)
    /\ pc' = "finally"
    /\ events' = Append(events, "report")
    /\ UNCHANGED <<args, obj, cmd, cmdargs, params, made, client, closes, calls,
                   result, out, status, value, text>>

\* the except block: print the message and raise SystemExit(1)
Except ==
    /\ pc = "except"
    /\ err' = Append(err, ErrorLine(ErrorMessage))
    /\ exiting' = Some(1)
    /\ pc' = "finally"
    /\ events' = Append(events, "report")
    /\ UNCHANGED <<args, obj, cmd, cmdargs, params, made, client, closes, calls,
                   result, out, status, value, text>>

\* Finally with client.close() after the try statement instead of in its finally
\* block: a propagating SystemExit skips it
Finally_after_try ==
    /\ pc = "finally"
    /\ closes' = IF exiting # None THEN closes ELSE closes + 1
    /\ client' = IF exiting # None THEN client ELSE "closed"
    /\ events' = IF exiting # None THEN events ELSE Append(events, "close")
    /\ pc' = IF exiting # None THEN "exit" ELSE "render"
    /\ UNCHANGED <<args, obj, cmd, cmdargs, params, made, calls, result, exiting,
                   out, err, status, value, text>>

\* the finally block: client.close(), then on to the rest of the handler or, with
\* SystemExit propagating, out of it
Finally ==
    /\ pc = "finally"
    /\ closes' = closes + 1
    /\ client' = "closed"
    /\ events' = Append(events, "close")
    /\ pc' = IF exiting # None THEN "exit" ELSE "render"
    /\ UNCHANGED <<args, obj, cmd, cmdargs, params, made, calls, result, exiting,
                   out, err, status, value, text>>

\* the handler's statements after the try statement: print the result and return
Render ==
    /\ pc = "render"
    /\ out' = Append(out, RenderOf(cmd, params, result[1]))
    /\ events' = Append(events, "render")
    /\ Raise(0)
    /\ UNCHANGED <<args, obj, cmd, cmdargs, params, made, client, closes, calls,
                   result, err, status, value, text>>

\* the process exits with the status of the SystemExit
Exit ==
    /\ pc = "exit"
    /\ status' = exiting[1]
    /\ pc' = "done"
    /\ events' = Append(events, "exit")
    /\ UNCHANGED <<args, obj, cmd, cmdargs, params, made, client, closes, calls,
                   result, exiting, out, err, value, text>>

Next ==
    \/ NoCommand
    \/ Resolve
    \/ Parse
    \/ Enter
    \/ get_client
    \/ Try
    \/ Except
    \/ Finally
    \/ Render
    \/ Exit

Spec == Init /\ [][Next]_vars

\* ---- _format_cell on its own

InitCell ==
    /\ args = <<>>
    /\ pc = "cell"
    /\ value \in CellValues
    /\ Blank

FormatCell ==
    /\ pc = "cell"
    /\ text' = <<_format_cell(value)>>
    /\ pc' = "formatted"
    /\ UNCHANGED <<args, obj, cmd, cmdargs, params, made, client, closes, calls,
                   result, exiting, out, err, status, events, value>>

NextCell == FormatCell

SpecCell == InitCell /\ [][NextCell]_vars

\* ================================================================ claims

Done == pc = "done"

\* the four commands a user can name
PublicCommands == {"list", "execute", "search", "add"}

Ops == { calls[i].op : i \in 1..Len(calls) }

Range(q) == { q[i] : i \in 1..Len(q) }

\* the tokens with one space between neighbours, built from the last token back
RECURSIVE JoinedBySpaces(_)
JoinedBySpaces(q) ==
    IF Len(q) = 0 THEN ""
    ELSE IF Len(q) = 1 THEN q[1]
    ELSE JoinedBySpaces(SubSeq(q, 1, Len(q) - 1)) \o " " \o q[Len(q)]

\* C1: whenever the first token is not list, execute, search or add, the remote
\* operation invoked is ask, alone, and its question is every token of the
\* invocation, the first included, in order, joined by single spaces.  Stated for
\* the first tokens that name no command at all, so neither the hidden _ask.
C1_AskGetsEveryToken ==
    (Done /\ args # <<>> /\ args[1] \notin Commands /\ calls # <<>>)
        => calls = << [op |-> "ask", question |-> JoinedBySpaces(args)] >>

\* C2: a run that constructed a client has closed it exactly once when the
\* process exits, after a remote error (exit status 1) as after a success; close
\* is never called twice, and never without a client.
C2_ClosedExactlyOnce ==
    /\ closes <= Len(made)
    /\ Len(made) <= 1
    /\ (Done /\ made # <<>>) => closes = 1
    /\ (Done /\ calls # <<>> /\ result = None) => (closes = 1 /\ status = 1)

C2_Witness ==
    /\ Done
    /\ made # <<>>
    /\ calls # <<>>
    /\ result = None
    /\ status = 1
    /\ closes = 1

HandlerFailed ==
    \/ OutputNeedsFormat(cmd, params)
    \/ "construct" \in Range(events) /\ made = <<>>
    \/ calls # <<>> /\ result = None

\* C4 as stated, for the runs that selected a command: the run ends with status
\* 0 or 1, and with status 1 if it reported an error on the error stream, bad or
\* missing arguments included.
C4_ReportedErrorExitsOne ==
    (Done /\ cmd \in Commands) => (status \in {0, 1} /\ (err # <<>> => status = 1))

\* C4 amended: every run ends with status 0, 1 or 2; status 1 when a handler
\* reported the error (output path without format, client construction failure,
\* remote error) and in no other run; status 2 only when the command line was
\* rejected before any handler ran; a run whose remote operation succeeded ends
\* with status 0, and no run that reported an error does.
C4_ExitStatus ==
    Done => /\ status \in {0, 1, 2}
            /\ status = 1 <=> HandlerFailed
            /\ status = 2 => (events = <<"parse", "exit">> /\ params = NoParams)
            /\ result # None => status = 0
            /\ (status = 0 /\ result = None) => (out # <<>> /\ err = <<>> /\ calls = <<>>)
            /\ (err # <<>>) => status \in {1, 2}

C4_Witness ==
    /\ Done
    /\ status = 2
    /\ cmd = "execute"
    /\ err # <<>>

\* C5: when the first token is list, execute, search or add, the router selects
\* that command, whatever follows, and ask is never invoked.
C5_KnownCommandWins ==
    (args # <<>> /\ args[1] \in PublicCommands /\ pc # "start")
        => /\ cmd = args[1]
           /\ cmdargs = Tail(args)
           /\ "ask" \notin Ops

C5_Witness ==
    /\ Done
    /\ Len(args) > 1
    /\ args[1] = "list"
    /\ args[2] = "the"
    /\ cmd = "list"
    /\ calls = <<>>

\* C6: search that succeeds with zero rows prints one line naming the keywords
\* and the predicate, renders no table, and exits with status 0 with the client
\* closed once and nothing on the error stream.
C6_SearchNoResults ==
    (Done /\ cmd = "search" /\ result # None /\ result[1].rows = <<>>)
        => /\ Len(out) = 1
           /\ out[1].kind = "text"
           /\ out[1].parts[1] = "No results for \""
           /\ params.keywords \in Range(out[1].parts)
           /\ params.predicate \in Range(out[1].parts)
           /\ out[1].parts[2] = calls[1].keywords
           /\ out[1].parts[4] = calls[1].predicate
           /\ err = <<>>
           /\ status = 0
           /\ closes = 1

C6_Witness ==
    /\ Done
    /\ cmd = "search"
    /\ result # None
    /\ result[1].rows = <<>>
    /\ params.keywords = "acme"
    /\ status = 0

\* C7: execute with a format and no output path hands <predicate>.<format> to
\* the remote call and names it in the Saved line; an output path given with a
\* format is handed over and named unchanged.
C7_DefaultOutputPath ==
    (cmd = "execute" /\ params.fmt # None /\ calls # <<>>)
        => LET expected == IF params.output = None
                           THEN params.predicate \o "." \o params.fmt[1]
                           ELSE params.output[1]
           IN  /\ calls[1].output = Some(expected)
               /\ calls[1].format = params.fmt
               /\ (Done /\ status = 0) => (out[1].parts[1] = "Saved"
                                           /\ out[1].parts[3] = expected)

C7_Witness ==
    /\ Done
    /\ status = 0
    /\ cmd = "execute"
    /\ params.predicate = "Sales"
    /\ params.fmt = Some("csv")
    /\ params.output = None
    /\ calls[1].output = Some("Sales.csv")
    /\ out[1].parts[3] = "Sales.csv"

\* C8: a value whose string form has more than 80 characters is rendered as its
\* first 77 characters followed by "...", 80 characters in all; a value of at most
\* 80 characters is rendered unchanged.
C8_Truncation ==
    (pc = "formatted" /\ value.t # "none")
        => LET s == str(value)
               t == text[1].plain
           IN  IF Len(s) > 80
               THEN /\ Len(t) = 80
                    /\ SubSeq(t, 1, 77) = SubSeq(s, 1, 77)
                    /\ SubSeq(t, 78, 80) = "..."
               ELSE t = s

C8_Witness ==
    /\ pc = "formatted"
    /\ value.t = "str"
    /\ Len(value.s) = 81
    /\ SubSeq(value.s, 77, 77) = "b"
    /\ Len(text[1].plain) = 80
    /\ SubSeq(text[1].plain, 77, 80) = "b..."

\* the cell of row i, column j of the rendered table holds a null or missing value
NullAt(i, j) ==
    LET row == result[1].rows[i]
        key == result[1].columns[j].name
    IN  key \notin DOMAIN row \/ row[key].t = "none"

\* every value that is not None, among those the rows and the cell inputs hold
NonNullValues ==
    (CellValues \cup UNION { { r[k] : k \in DOMAIN r } : r \in Rows })
        \ {NoneValue}

\* how _format_cell renders them
NonNullRenderings == { _format_cell(v) : v \in NonNullValues }

TableShown ==
    /\ cmd \in {"execute", "search"}
    /\ out # <<>>
    /\ out[1].kind = "table"

\* C9: in a table rendered by execute or search every row has one cell per
\* result column, and the cell of a null or missing value is a placeholder: not
\* empty, and different from the rendering of every value that is not null.
C9_NullPlaceholder ==
    TableShown
        => /\ Len(out[1].rows) = Len(result[1].rows)
           /\ \A i \in 1..Len(out[1].rows) :
                 /\ Len(out[1].rows[i]) = Len(result[1].columns)
                 /\ \A j \in 1..Len(result[1].columns) :
                       LET cell == out[1].rows[i][j]
                       IN  IF NullAt(i, j)
                           THEN /\ cell.plain # ""
                                /\ cell \notin NonNullRenderings
                           ELSE cell = _format_cell(result[1].rows[i][result[1].columns[j].name])

C9_Witness ==
    /\ TableShown
    /\ cmd = "search"
    /\ \E i \in 1..Len(result[1].rows), j \in 1..Len(result[1].columns) :
          /\ result[1].columns[j].name \notin DOMAIN result[1].rows[i]
          /\ out[1].rows[i][j].plain = "null"
    /\ \E i \in 1..Len(result[1].rows), j \in 1..Len(result[1].columns) :
          /\ result[1].columns[j].name \in DOMAIN result[1].rows[i]
          /\ result[1].rows[i][result[1].columns[j].name].t = "none"

\* events are steps of the list order, each at most once and in that order
Rank(e, order) == CHOOSE a \in 1..Len(order) : order[a] = e

InOrder(order) ==
    /\ Range(events) \subseteq Range(order)
    /\ \A i \in 1..(Len(events) - 1) : Rank(events[i], order) < Rank(events[i + 1], order)

\* C10 as stated: parse, construct, remote call, render, release, exit, each at
\* most once and in this order (the error report, where there is one, after the
\* remote call).
C10_RenderThenRelease ==
    InOrder(<<"parse", "construct", "call", "report", "render", "close", "exit">>)

\* C10 amended: parse, construct, remote call, release, render, exit, each at
\* most once and in this order; the remote call is never repeated, and on a
\* successful run the client is released before the result is rendered.
C10_LinearPath ==
    /\ InOrder(<<"parse", "construct", "call", "report", "close", "render", "exit">>)
    /\ Len(calls) <= 1
    /\ Len(out) <= 1
    /\ (Done /\ result # None)
          => events = <<"parse", "construct", "call", "close", "render", "exit">>

C10_Witness ==
    /\ Done
    /\ status = 0
    /\ cmd = "_ask"
    /\ events = <<"parse", "construct", "call", "close", "render", "exit">>

====
